---- MODULE Spec2Model ----
(***************************************************************************)
(* Onboarding step sequencer of the wallet: the decision table             *)
(* (_getStepInfo), the real navigation driver (goToNextOnboardingScreen)   *)
(* and the step counter (getOnboardingStepValues).                         *)
(***************************************************************************)
EXTENDS Naturals, Sequences, FiniteSets, TLC

\* ------------------------------------------------------------------------
\* Bounds
\* ------------------------------------------------------------------------
\* Iterations of the simulation loop explored before it is declared diverged.
MaxIter == 8
\* goToNextOnboardingScreen calls explored in one run of the real driver.
MaxCalls == 8

\* ------------------------------------------------------------------------
\* Screens
\* ------------------------------------------------------------------------
\* Screens the decision table has a case for (switch labels).
HandledScreens ==
  { "PincodeSet", "EnableBiometry", "ImportSelect", "SignInWithEmail",
    "ImportWallet", "LinkPhoneNumber", "VerificationStartScreen",
    "ProtectWallet" }

END_OF_ONBOARDING_SCREENS == { "TabHome", "ChooseYourAdventure" }

\* The members of the Screens enum the sequencer mentions.
Screens == HandledScreens \cup END_OF_ONBOARDING_SCREENS \cup { "Welcome" }

\* ------------------------------------------------------------------------
\* Feature flags and snapshots
\* ------------------------------------------------------------------------
ToggleableOnboardingFeatures ==
  { "CloudBackup", "CloudBackupSetupInOnboarding", "PhoneVerification",
    "ProtectWallet", "EnableBiometry" }

\* BIOMETRY_TYPE values explored; "null" stands for null.
BiometryTypes == { "Fingerprint" }

\* boolean | undefined, as strings so the three values are comparable.
OptBool == { "true", "false", "undefined" }

Truthy(x) == x = "true"

OnboardingProps ==
  [ recoveringFromStoreWipe : BOOLEAN,
    choseToRestoreAccount : OptBool,
    supportedBiometryType : BiometryTypes \cup { "null" },
    skipVerification : BOOLEAN,
    numberAlreadyVerifiedCentrally : BOOLEAN,
    showCloudAccountBackupRestore : BOOLEAN,
    showCloudAccountBackupSetup : BOOLEAN,
    skipProtectWallet : BOOLEAN ]

\* ------------------------------------------------------------------------
\* onboardingPropsSelector
\* ------------------------------------------------------------------------
\* What the four state selectors can return.
SelectorInputs ==
  [ recoveringFromStoreWipe : BOOLEAN,
    choseToRestoreAccount : OptBool,
    supportedBiometryType : BiometryTypes \cup { "null" },
    phoneNumberVerified : BOOLEAN ]

\* Mutant: cloud backup setup is read from its own flag alone.
onboardingPropsSelectorSetupAlone(state, features) ==
  [ recoveringFromStoreWipe |-> state.recoveringFromStoreWipe,
    choseToRestoreAccount |-> state.choseToRestoreAccount,
    supportedBiometryType |->
      IF features["EnableBiometry"] THEN state.supportedBiometryType ELSE "null",
    skipVerification |-> ~features["PhoneVerification"],
    numberAlreadyVerifiedCentrally |-> state.phoneNumberVerified,
    showCloudAccountBackupRestore |-> features["CloudBackup"],
    showCloudAccountBackupSetup |-> features["CloudBackupSetupInOnboarding"],
    skipProtectWallet |-> ~features["ProtectWallet"] ]

onboardingPropsSelector(state, features) ==
  [ recoveringFromStoreWipe |-> state.recoveringFromStoreWipe,
    choseToRestoreAccount |-> state.choseToRestoreAccount,
    supportedBiometryType |->
      IF features["EnableBiometry"] THEN state.supportedBiometryType ELSE "null",
    skipVerification |-> ~features["PhoneVerification"],
    numberAlreadyVerifiedCentrally |-> state.phoneNumberVerified,
    showCloudAccountBackupRestore |-> features["CloudBackup"],
    showCloudAccountBackupSetup |->
      features["CloudBackup"] /\ features["CloudBackupSetupInOnboarding"],
    skipProtectWallet |-> ~features["ProtectWallet"] ]

\* Every setting of the feature flags.
FeatureConfigs == [ ToggleableOnboardingFeatures -> BOOLEAN ]

\* The settings under which hand-built snapshots are explored: the sequencer
\* itself reads no flag but CloudBackup.
BaseConfigs ==
  { f \in FeatureConfigs :
      \A t \in ToggleableOnboardingFeatures \ { "CloudBackup" } : f[t] }

VARIABLES
  flags,        \* ONBOARDING_FEATURES_ENABLED
  props,        \* the snapshot handed to the sequencer
  currentStep,  \* the onboarding screen the user is on
  navCalls,     \* calls made on NavigationService, in order
  dispatched,   \* actions passed to store.dispatch, in order
  stepLog,      \* per goToNextOnboardingScreen call that found a step: the
                \* screen passed and the calls next() made
  error,        \* "none", or the screen named by the escaped
                \* "No step info found for ..." error
  sim           \* outcome of the last getOnboardingStepValues call

vars == << flags, props, currentStep, navCalls, dispatched, stepLog, error, sim >>

\* ------------------------------------------------------------------------
\* firstOnboardingScreen
\* ------------------------------------------------------------------------
\* Mutant: the two restore entry screens swapped.
firstOnboardingScreenSwapped(recoveringFromStoreWipe, features) ==
  IF recoveringFromStoreWipe
    THEN IF features["CloudBackup"] THEN "ImportWallet" ELSE "ImportSelect"
    ELSE "PincodeSet"

firstOnboardingScreen(recoveringFromStoreWipe, features) ==
  IF recoveringFromStoreWipe
    THEN IF features["CloudBackup"] THEN "ImportSelect" ELSE "ImportWallet"
    ELSE "PincodeSet"

\* ------------------------------------------------------------------------
\* Calls a step makes on the navigator and dispatch it was given
\* ------------------------------------------------------------------------
Navigate(s) == [ fn |-> "navigate", action |-> "none", screen |-> s ]
PopToScreen(s) == [ fn |-> "popToScreen", action |-> "none", screen |-> s ]
FinishOnboarding(s) == [ fn |-> "finishOnboarding", action |-> "none", screen |-> s ]
NavigateClearingStack(s) ==
  [ fn |-> "navigateClearingStack", action |-> "none", screen |-> s ]
Dispatch(a, s) == [ fn |-> "dispatch", action |-> a, screen |-> s ]

initializeAccount == Dispatch("initializeAccount", "none")
updateLastOnboardingScreen(s) == Dispatch("updateLastOnboardingScreen", s)

\* navigate(...args); dispatch(updateLastOnboardingScreen(screen))
wrapNavigate(s) == << Navigate(s), updateLastOnboardingScreen(s) >>

\* Mutant: navigates without recording the destination as last seen.
navigateImportOrImportSelectUnrecorded(p) ==
  IF p.showCloudAccountBackupRestore
    THEN << Navigate("ImportSelect") >>
    ELSE << Navigate("ImportWallet") >>

navigateImportOrImportSelect(p) ==
  IF p.showCloudAccountBackupRestore
    THEN wrapNavigate("ImportSelect")
    ELSE wrapNavigate("ImportWallet")

\* next() of each case of the switch, as the calls it makes in order.
\* Mutant: the restore branch navigates to Welcome instead of popping to it.
PincodeSetNextNavigatesToWelcome(p) ==
  IF p.supportedBiometryType # "null"
    THEN wrapNavigate("EnableBiometry")
  ELSE IF Truthy(p.choseToRestoreAccount)
    THEN wrapNavigate("Welcome")
  ELSE IF p.showCloudAccountBackupSetup
    THEN << initializeAccount >> \o wrapNavigate("SignInWithEmail")
  ELSE << initializeAccount >> \o
       (IF p.skipProtectWallet
          THEN << FinishOnboarding("ChooseYourAdventure") >>
          ELSE wrapNavigate("ProtectWallet"))

\* Mutant: the account is initialized before EnableBiometry is shown, too.
PincodeSetNextInitBeforeBiometry(p) ==
  IF p.supportedBiometryType # "null"
    THEN << initializeAccount >> \o wrapNavigate("EnableBiometry")
  ELSE IF Truthy(p.choseToRestoreAccount)
    THEN << PopToScreen("Welcome") >> \o navigateImportOrImportSelect(p)
  ELSE IF p.showCloudAccountBackupSetup
    THEN << initializeAccount >> \o wrapNavigate("SignInWithEmail")
  ELSE << initializeAccount >> \o
       (IF p.skipProtectWallet
          THEN << FinishOnboarding("ChooseYourAdventure") >>
          ELSE wrapNavigate("ProtectWallet"))

\* Mutant: the restore choice is tested before biometry support.
PincodeSetNextRestoreFirst(p) ==
  IF Truthy(p.choseToRestoreAccount)
    THEN << PopToScreen("Welcome") >> \o navigateImportOrImportSelect(p)
  ELSE IF p.supportedBiometryType # "null"
    THEN wrapNavigate("EnableBiometry")
  ELSE IF p.showCloudAccountBackupSetup
    THEN << initializeAccount >> \o wrapNavigate("SignInWithEmail")
  ELSE << initializeAccount >> \o
       (IF p.skipProtectWallet
          THEN << FinishOnboarding("ChooseYourAdventure") >>
          ELSE wrapNavigate("ProtectWallet"))

PincodeSetNext(p) ==
  IF p.supportedBiometryType # "null"
    THEN wrapNavigate("EnableBiometry")
  ELSE IF Truthy(p.choseToRestoreAccount)
    THEN << PopToScreen("Welcome") >> \o navigateImportOrImportSelect(p)
  ELSE IF p.showCloudAccountBackupSetup
    THEN << initializeAccount >> \o wrapNavigate("SignInWithEmail")
  ELSE << initializeAccount >> \o
       (IF p.skipProtectWallet
          THEN << FinishOnboarding("ChooseYourAdventure") >>
          ELSE wrapNavigate("ProtectWallet"))

\* Mutant: the account is initialized after the navigation, not before.
EnableBiometryNextInitLast(p) ==
  IF Truthy(p.choseToRestoreAccount)
    THEN navigateImportOrImportSelect(p)
  ELSE IF p.showCloudAccountBackupSetup
    THEN wrapNavigate("SignInWithEmail") \o << initializeAccount >>
  ELSE (IF p.skipProtectWallet
          THEN << FinishOnboarding("ChooseYourAdventure") >>
          ELSE wrapNavigate("ProtectWallet")) \o << initializeAccount >>

EnableBiometryNext(p) ==
  IF Truthy(p.choseToRestoreAccount)
    THEN navigateImportOrImportSelect(p)
  ELSE IF p.showCloudAccountBackupSetup
    THEN << initializeAccount >> \o wrapNavigate("SignInWithEmail")
  ELSE << initializeAccount >> \o
       (IF p.skipProtectWallet
          THEN << FinishOnboarding("ChooseYourAdventure") >>
          ELSE wrapNavigate("ProtectWallet"))

\* Mutant: the stack is cleared on the way to LinkPhoneNumber.
ImportSelectNextClearingStack(p) ==
  IF p.skipVerification \/ p.numberAlreadyVerifiedCentrally
    THEN << FinishOnboarding("ChooseYourAdventure") >>
    ELSE << NavigateClearingStack("LinkPhoneNumber"),
            updateLastOnboardingScreen("LinkPhoneNumber") >>

\* Mutant: the import choice leads to the email sign-in before verification.
ImportSelectNextViaSignIn(p) ==
  IF p.skipVerification \/ p.numberAlreadyVerifiedCentrally
    THEN << FinishOnboarding("ChooseYourAdventure") >>
    ELSE wrapNavigate("SignInWithEmail")

ImportSelectNext(p) ==
  IF p.skipVerification \/ p.numberAlreadyVerifiedCentrally
    THEN << FinishOnboarding("ChooseYourAdventure") >>
    ELSE wrapNavigate("LinkPhoneNumber")

\* Mutant: the else is missing, so a finished step navigates as well.
SignInWithEmailNextNoElse(p) ==
  (IF p.skipVerification \/ p.numberAlreadyVerifiedCentrally
     THEN << FinishOnboarding("ChooseYourAdventure") >>
     ELSE << >>)
  \o wrapNavigate("VerificationStartScreen")

SignInWithEmailNext(p) ==
  IF p.skipVerification \/ p.numberAlreadyVerifiedCentrally
    THEN << FinishOnboarding("ChooseYourAdventure") >>
    ELSE wrapNavigate("VerificationStartScreen")

\* Mutant: the central verification status is not consulted.
ImportWalletNextIgnoresVerified(p) ==
  IF p.skipVerification
    THEN << FinishOnboarding("ChooseYourAdventure") >>
    ELSE wrapNavigate("VerificationStartScreen")

ImportWalletNext(p) ==
  IF p.skipVerification \/ p.numberAlreadyVerifiedCentrally
    THEN << FinishOnboarding("ChooseYourAdventure") >>
    ELSE wrapNavigate("VerificationStartScreen")

\* Mutant: verification ends onboarding at the other terminal screen.
VerificationNextToTabHome(p) == << FinishOnboarding("TabHome") >>

\* Mutant: the account is initialized again at the end of verification.
VerificationNextInitializes(p) ==
  << initializeAccount, FinishOnboarding("ChooseYourAdventure") >>

VerificationNext(p) == << FinishOnboarding("ChooseYourAdventure") >>

\* Mutant: ProtectWallet consults the central verification status too.
ProtectWalletNextChecksVerified(p) ==
  IF p.skipVerification \/ p.numberAlreadyVerifiedCentrally
    THEN << FinishOnboarding("ChooseYourAdventure") >>
    ELSE wrapNavigate("VerificationStartScreen")

\* Mutant: ProtectWallet sends the user back to PincodeSet.
ProtectWalletNextBackToPincode(p) ==
  IF p.skipVerification
    THEN << FinishOnboarding("ChooseYourAdventure") >>
    ELSE wrapNavigate("PincodeSet")

ProtectWalletNext(p) ==
  IF p.skipVerification
    THEN << FinishOnboarding("ChooseYourAdventure") >>
    ELSE wrapNavigate("VerificationStartScreen")

\* Mutant: the switch has no throwing default; an unknown screen falls into
\* the last case.
_getStepInfoNoDefault(firstScreenInStep, p) ==
  CASE firstScreenInStep = "PincodeSet" ->
         [ found |-> TRUE, next |-> PincodeSetNext(p) ]
    [] firstScreenInStep = "EnableBiometry" ->
         [ found |-> TRUE, next |-> EnableBiometryNext(p) ]
    [] firstScreenInStep = "ImportSelect" ->
         [ found |-> TRUE, next |-> ImportSelectNext(p) ]
    [] firstScreenInStep = "SignInWithEmail" ->
         [ found |-> TRUE, next |-> SignInWithEmailNext(p) ]
    [] firstScreenInStep = "ImportWallet" ->
         [ found |-> TRUE, next |-> ImportWalletNext(p) ]
    [] firstScreenInStep \in { "LinkPhoneNumber", "VerificationStartScreen" } ->
         [ found |-> TRUE, next |-> VerificationNext(p) ]
    [] OTHER -> [ found |-> TRUE, next |-> ProtectWalletNext(p) ]

\* The switch of _getStepInfo: found = FALSE is the throwing default case,
\* next is the sequence of calls next() makes on navigator and dispatch.
_getStepInfo(firstScreenInStep, p) ==
  CASE firstScreenInStep = "PincodeSet" ->
         [ found |-> TRUE, next |-> PincodeSetNext(p) ]
    [] firstScreenInStep = "EnableBiometry" ->
         [ found |-> TRUE, next |-> EnableBiometryNext(p) ]
    [] firstScreenInStep = "ImportSelect" ->
         [ found |-> TRUE, next |-> ImportSelectNext(p) ]
    [] firstScreenInStep = "SignInWithEmail" ->
         [ found |-> TRUE, next |-> SignInWithEmailNext(p) ]
    [] firstScreenInStep = "ImportWallet" ->
         [ found |-> TRUE, next |-> ImportWalletNext(p) ]
    [] firstScreenInStep \in { "LinkPhoneNumber", "VerificationStartScreen" } ->
         [ found |-> TRUE, next |-> VerificationNext(p) ]
    [] firstScreenInStep = "ProtectWallet" ->
         [ found |-> TRUE, next |-> ProtectWalletNext(p) ]
    [] OTHER -> [ found |-> FALSE, next |-> << >> ]

\* ------------------------------------------------------------------------
\* The real navigator and dispatch (goToNextOnboardingScreen)
\* ------------------------------------------------------------------------
\* Mutant: routing is triggered before the completion flag is set.
RealFinishOnboardingRoutingFirst(s) ==
  << Dispatch("updateStatsigAndNavigate", s),
     Dispatch("onboardingCompleted", "none"),
     Dispatch("updateLastOnboardingScreen", s) >>

\* finishOnboarding of the real driver: three dispatches, in this order.
RealFinishOnboarding(s) ==
  << Dispatch("onboardingCompleted", "none"),
     Dispatch("updateLastOnboardingScreen", s),
     Dispatch("updateStatsigAndNavigate", s) >>

\* What one call of the step does to the two global logs.
RealCall(c, w) ==
  CASE c.fn \in { "navigate", "popToScreen", "navigateClearingStack" } ->
         [ w EXCEPT !.navCalls = Append(@, c) ]
    [] c.fn = "finishOnboarding" ->
         [ w EXCEPT !.dispatched = @ \o RealFinishOnboarding(c.screen) ]
    [] c.fn = "dispatch" ->
         [ w EXCEPT !.dispatched = Append(@, c) ]

RECURSIVE ExecReal(_, _)
ExecReal(calls, w) ==
  IF calls = << >> THEN w
  ELSE ExecReal(Tail(calls), RealCall(Head(calls), w))

\* The screen the user is on once the step's calls are made.
RECURSIVE ScreenAfter(_, _)
ScreenAfter(calls, s) ==
  IF calls = << >> THEN s
  ELSE ScreenAfter(Tail(calls),
         IF Head(calls).fn \in { "navigate", "navigateClearingStack",
                                 "finishOnboarding" }
           THEN Head(calls).screen ELSE s)

goToNextOnboardingScreen(firstScreenInCurrentStep) ==
  LET stepInfo == _getStepInfo(firstScreenInCurrentStep, props)
      w == ExecReal(stepInfo.next,
                    [ navCalls |-> navCalls, dispatched |-> dispatched ])
  IN  /\ error = "none"
      /\ Len(stepLog) < MaxCalls
      /\ IF stepInfo.found
           THEN /\ navCalls' = w.navCalls
                /\ dispatched' = w.dispatched
                /\ currentStep' = ScreenAfter(stepInfo.next, currentStep)
                /\ stepLog' = Append(stepLog,
                     [ from |-> firstScreenInCurrentStep,
                       calls |-> stepInfo.next ])
                /\ error' = error
           ELSE /\ error' = firstScreenInCurrentStep
                /\ UNCHANGED << navCalls, dispatched, currentStep, stepLog >>
      /\ UNCHANGED << flags, props, sim >>

\* The user completes the screen they are on.
NextStep ==
  /\ currentStep \notin END_OF_ONBOARDING_SCREENS
  /\ goToNextOnboardingScreen(currentStep)

\* A caller passes a screen the table has no case for.
UnhandledStep ==
  \E s \in Screens \ HandledScreens :
    /\ currentStep \notin END_OF_ONBOARDING_SCREENS
    /\ goToNextOnboardingScreen(s)

\* ------------------------------------------------------------------------
\* The step counter (getOnboardingStepValues)
\* ------------------------------------------------------------------------
\* The closure's local variables after the statement `at` has run.
Local(stepCounter, totalCounter, reachedStep, screen, at) ==
  [ stepCounter |-> stepCounter, totalCounter |-> totalCounter,
    reachedStep |-> reachedStep, currentScreen |-> screen, at |-> at ]

Last(seq) == seq[Len(seq)]

\* Mutant: the target is recognised on arrival (nextScreen === screen), not
\* on departure.
nextStepAndCountOnArrival(l, target, nextScreen) ==
  LET counted == nextScreen \notin END_OF_ONBOARDING_SCREENS
      l1 == [ l EXCEPT !.totalCounter = @ + 1, !.at = "totalCounter++" ]
      hit == nextScreen = target
      l2 == [ l1 EXCEPT !.reachedStep = TRUE, !.at = "reachedStep" ]
      l2e == IF hit THEN l2 ELSE l1
      l3 == [ l2e EXCEPT !.stepCounter = @ + 1, !.at = "stepCounter++" ]
      l3e == IF l2e.reachedStep THEN l2e ELSE l3
      lc == IF counted THEN l3e ELSE l
  IN  (IF counted
         THEN << l1 >> \o (IF hit THEN << l2 >> ELSE << >>)
                       \o (IF l2e.reachedStep THEN << >> ELSE << l3 >>)
         ELSE << >>)
      \o << [ lc EXCEPT !.currentScreen = nextScreen, !.at = "currentScreen" ] >>

\* Mutant: stepCounter is incremented before totalCounter.
nextStepAndCountStepFirst(l, target, nextScreen) ==
  LET counted == nextScreen \notin END_OF_ONBOARDING_SCREENS
      hit == l.currentScreen = target
      l1 == [ l EXCEPT !.reachedStep = TRUE, !.at = "reachedStep" ]
      l1e == IF hit THEN l1 ELSE l
      l2 == [ l1e EXCEPT !.stepCounter = @ + 1, !.at = "stepCounter++" ]
      l2e == IF l1e.reachedStep THEN l1e ELSE l2
      l3 == [ l2e EXCEPT !.totalCounter = @ + 1, !.at = "totalCounter++" ]
      lc == IF counted THEN l3 ELSE l
  IN  (IF counted
         THEN (IF hit THEN << l1 >> ELSE << >>)
              \o (IF l1e.reachedStep THEN << >> ELSE << l2 >>)
              \o << l3 >>
         ELSE << >>)
      \o << [ lc EXCEPT !.currentScreen = nextScreen, !.at = "currentScreen" ] >>

\* nextStepAndCount: the local states it passes through, one per assignment.
nextStepAndCount(l, target, nextScreen) ==
  LET counted == nextScreen \notin END_OF_ONBOARDING_SCREENS
      l1 == [ l EXCEPT !.totalCounter = @ + 1, !.at = "totalCounter++" ]
      hit == l1.currentScreen = target
      l2 == [ l1 EXCEPT !.reachedStep = TRUE, !.at = "reachedStep" ]
      l2e == IF hit THEN l2 ELSE l1
      l3 == [ l2e EXCEPT !.stepCounter = @ + 1, !.at = "stepCounter++" ]
      l3e == IF l2e.reachedStep THEN l2e ELSE l3
      lc == IF counted THEN l3e ELSE l
  IN  (IF counted
         THEN << l1 >> \o (IF hit THEN << l2 >> ELSE << >>)
                       \o (IF l2e.reachedStep THEN << >> ELSE << l3 >>)
         ELSE << >>)
      \o << [ lc EXCEPT !.currentScreen = nextScreen, !.at = "currentScreen" ] >>

\* finishOnboarding of the simulation: currentScreen = nextScreen
SimFinishOnboarding(l, nextScreen) ==
  << [ l EXCEPT !.currentScreen = nextScreen, !.at = "currentScreen" ] >>

\* Mutant: popToScreen is wired to nextStepAndCount like the other two.
SimCallPopCounts(c, w, target) ==
  CASE c.fn \in { "navigate", "navigateClearingStack", "popToScreen" } ->
         [ w EXCEPT !.trace = @ \o nextStepAndCount(Last(@), target, c.screen) ]
    [] c.fn = "finishOnboarding" ->
         [ w EXCEPT !.trace = @ \o SimFinishOnboarding(Last(@), c.screen) ]
    [] c.fn = "dispatch" -> w

\* Mutant: the simulation is handed store.dispatch instead of a no-op.
SimCallRealDispatch(c, w, target) ==
  CASE c.fn \in { "navigate", "navigateClearingStack" } ->
         [ w EXCEPT !.trace = @ \o nextStepAndCount(Last(@), target, c.screen) ]
    [] c.fn = "finishOnboarding" ->
         [ w EXCEPT !.trace = @ \o SimFinishOnboarding(Last(@), c.screen) ]
    [] c.fn = "popToScreen" -> w
    [] c.fn = "dispatch" -> [ w EXCEPT !.dispatched = Append(@, c) ]

\* What one call of the step does under the simulated navigator: popToScreen
\* and dispatch are no-ops, nothing reaches NavigationService or the store.
SimCall(c, w, target) ==
  CASE c.fn \in { "navigate", "navigateClearingStack" } ->
         [ w EXCEPT !.trace = @ \o nextStepAndCount(Last(@), target, c.screen) ]
    [] c.fn = "finishOnboarding" ->
         [ w EXCEPT !.trace = @ \o SimFinishOnboarding(Last(@), c.screen) ]
    [] c.fn = "popToScreen" -> w
    [] c.fn = "dispatch" -> w

RECURSIVE ExecSim(_, _, _)
ExecSim(calls, w, target) ==
  IF calls = << >> THEN w
  ELSE ExecSim(Tail(calls), SimCall(Head(calls), w, target), target)

\* The while loop; fuel bounds the iterations explored.
RECURSIVE SimLoop(_, _, _, _)
SimLoop(w, target, p, fuel) ==
  LET cur == Last(w.trace).currentScreen
      stepInfo == _getStepInfo(cur, p)
  IN  IF cur \in END_OF_ONBOARDING_SCREENS THEN w
      ELSE IF fuel = 0 THEN [ w EXCEPT !.diverged = TRUE ]
      ELSE IF ~stepInfo.found THEN [ w EXCEPT !.threw = TRUE ]
      ELSE SimLoop([ ExecSim(stepInfo.next, w, target)
                       EXCEPT !.iters = @ + 1 ],
                   target, p, fuel - 1)

\* Mutant: stepCounter starts at 0.
getOnboardingStepValuesStepFromZero(screen, p, features, nav, disp) ==
  LET firstScreen == firstOnboardingScreen(p.recoveringFromStoreWipe, features)
      w == SimLoop([ trace |-> << Local(0, 1, FALSE, firstScreen, "init") >>,
                     navCalls |-> nav, dispatched |-> disp,
                     threw |-> FALSE, diverged |-> FALSE, iters |-> 0,
                     totalSteps |-> 0, step |-> 0 ],
                   screen, p, MaxIter)
  IN  [ w EXCEPT !.totalSteps = Last(w.trace).totalCounter,
                 !.step = Last(w.trace).stepCounter ]

getOnboardingStepValues(screen, p, features, nav, disp) ==
  LET firstScreen == firstOnboardingScreen(p.recoveringFromStoreWipe, features)
      w == SimLoop([ trace |-> << Local(1, 1, FALSE, firstScreen, "init") >>,
                     navCalls |-> nav, dispatched |-> disp,
                     threw |-> FALSE, diverged |-> FALSE, iters |-> 0,
                     totalSteps |-> 0, step |-> 0 ],
                   screen, p, MaxIter)
  IN  [ w EXCEPT !.totalSteps = Last(w.trace).totalCounter,
                 !.step = Last(w.trace).stepCounter ]

\* A screen component asks for "step X of Y".
CallGetOnboardingStepValues ==
  \E target \in Screens :
    LET res == getOnboardingStepValues(target, props, flags, navCalls, dispatched)
    IN  /\ error = "none"
        /\ navCalls' = res.navCalls
        /\ dispatched' = res.dispatched
        /\ sim' = [ called |-> TRUE, target |-> target, trace |-> res.trace,
                    threw |-> res.threw, diverged |-> res.diverged,
                    iters |-> res.iters,
                    step |-> res.step, totalSteps |-> res.totalSteps ]
        /\ error' = IF res.threw THEN Last(res.trace).currentScreen ELSE error
        /\ UNCHANGED << flags, props, currentStep, stepLog >>

NoSim ==
  [ called |-> FALSE, target |-> "none", trace |-> << >>,
    threw |-> FALSE, diverged |-> FALSE, iters |-> 0,
    step |-> 0, totalSteps |-> 0 ]

Init ==
  /\ \/ /\ flags \in FeatureConfigs
        /\ \E state \in SelectorInputs :
             props = onboardingPropsSelector(state, flags)
     \/ /\ flags \in BaseConfigs
        /\ props \in OnboardingProps
  /\ currentStep = firstOnboardingScreen(props.recoveringFromStoreWipe, flags)
  /\ navCalls = << >>
  /\ dispatched = << >>
  /\ stepLog = << >>
  /\ error = "none"
  /\ sim = NoSim

Next ==
  \/ NextStep
  \/ UnhandledStep
  \/ CallGetOnboardingStepValues

Spec == Init /\ [][Next]_vars

\* ------------------------------------------------------------------------
\* Observations used by the properties
\* ------------------------------------------------------------------------
IsNavigation(c) == c.fn \in { "navigate", "navigateClearingStack" }
IsRouting(c) == c.action = "updateStatsigAndNavigate"
IsScreenValue(l) == l.at \in { "init", "currentScreen" }

ScreensOf(seq) == [ i \in 1..Len(seq) |-> seq[i].screen ]

NoRepeat(seq) == \A i, j \in 1..Len(seq) : i < j => seq[i] # seq[j]

FirstScreen == firstOnboardingScreen(props.recoveringFromStoreWipe, flags)

\* Screens the real driver has shown: the first one, every navigation
\* destination, and the final screen once onboarding is finished.
DriverScreens ==
  << FirstScreen >> \o ScreensOf(SelectSeq(navCalls, IsNavigation))
                    \o ScreensOf(SelectSeq(dispatched, IsRouting))

\* The values currentScreen takes in the simulation, in order.
SimScreens ==
  LET vals == SelectSeq(sim.trace, IsScreenValue)
  IN  [ i \in 1..Len(vals) |-> vals[i].currentScreen ]

NonTerminal(s) == s \notin END_OF_ONBOARDING_SCREENS

\* The flow of a snapshot: the screens met by following the table from s.
RECURSIVE FlowFrom(_, _, _)
FlowFrom(s, p, fuel) ==
  IF s \in END_OF_ONBOARDING_SCREENS \/ fuel = 0 \/ ~_getStepInfo(s, p).found
    THEN << s >>
    ELSE << s >> \o FlowFrom(ScreenAfter(_getStepInfo(s, p).next, s), p, fuel - 1)

Flow == SelectSeq(FlowFrom(FirstScreen, props, MaxIter), NonTerminal)

PositionIn(seq, x) == CHOOSE i \in 1..Len(seq) : seq[i] = x

OnFlow(x) == \E i \in 1..Len(Flow) : Flow[i] = x

Finished == currentStep \in END_OF_ONBOARDING_SCREENS

ScenarioA ==
  /\ ~props.recoveringFromStoreWipe
  /\ props.supportedBiometryType = "null"
  /\ props.choseToRestoreAccount = "undefined"
  /\ ~props.showCloudAccountBackupSetup
  /\ ~props.skipProtectWallet
  /\ ~props.skipVerification
  /\ ~props.numberAlreadyVerifiedCentrally

\* ------------------------------------------------------------------------
\* Properties
\* ------------------------------------------------------------------------

\* C1: for every snapshot, following the decision table from
\* firstOnboardingScreen reaches a terminal screen without visiting a screen
\* twice, in at most 6 applications; both in the simulation loop and in the
\* real driver.
C1_Termination ==
  /\ sim.called =>
       /\ ~sim.diverged
       /\ ~sim.threw
       /\ sim.iters <= 6
       /\ Last(sim.trace).currentScreen \in END_OF_ONBOARDING_SCREENS
       /\ NoRepeat(SimScreens)
  /\ Len(stepLog) <= 6
  /\ NoRepeat(DriverScreens)

C1_Witness ==
  /\ sim.called
  /\ sim.iters = 4
  /\ Finished
  /\ Len(stepLog) = 4

\* C2: the screens the real driver shows, from the first onboarding screen
\* to the final one, are the values currentScreen takes in the simulation
\* of the same snapshot: a prefix while the driver is under way, the whole
\* sequence (terminal screen included) once it has finished.
C2_SimulatorFidelity ==
  sim.called =>
    /\ Len(DriverScreens) <= Len(SimScreens)
    /\ SubSeq(SimScreens, 1, Len(DriverScreens)) = DriverScreens
    /\ Finished => DriverScreens = SimScreens

C2_Witness ==
  /\ sim.called
  /\ Finished
  /\ Len(DriverScreens) = 4
  /\ \E i \in 1..Len(navCalls) : navCalls[i].fn = "popToScreen"

\* C3: for a target on the flow, step is its 1-based position on the flow
\* and totalSteps the number of non-terminal screens of the flow; totalSteps
\* does not depend on the target; Scenario A gives step 2 of 3 for
\* ProtectWallet.
C3_StepValues ==
  sim.called =>
    /\ sim.totalSteps = Len(Flow)
    /\ OnFlow(sim.target) => sim.step = PositionIn(Flow, sim.target)
    /\ (ScenarioA /\ sim.target = "ProtectWallet") =>
         (sim.step = 2 /\ sim.totalSteps = 3)

C3_Witness ==
  /\ sim.called
  /\ ScenarioA
  /\ sim.target = "ProtectWallet"
  /\ sim.step = 2
  /\ sim.totalSteps = 3

\* C4: 1 <= step <= totalSteps in the returned value and after every
\* assignment the simulation makes.
C4_StepWithinTotal ==
  sim.called =>
    /\ 1 <= sim.step
    /\ sim.step <= sim.totalSteps
    /\ \A i \in 1..Len(sim.trace) :
         /\ 1 <= sim.trace[i].stepCounter
         /\ sim.trace[i].stepCounter <= sim.trace[i].totalCounter

C4_Witness ==
  /\ sim.called
  /\ OnFlow(sim.target)
  /\ sim.step = 2
  /\ sim.totalSteps = 4
  /\ \E i \in 1..Len(sim.trace) : sim.trace[i].at = "reachedStep"

\* C5: every screen the flow reaches has a case in the table: the driver is
\* only ever on a handled or a terminal screen, so completing the current
\* screen never raises, and the simulation never raises.
C5_Totality ==
  /\ currentStep \in HandledScreens \cup END_OF_ONBOARDING_SCREENS
  /\ NonTerminal(currentStep) => _getStepInfo(currentStep, props).found
  /\ sim.called => ~sim.threw
  /\ \A i \in 1..Len(DriverScreens) :
       DriverScreens[i] \in HandledScreens \cup END_OF_ONBOARDING_SCREENS

C5_Witness ==
  /\ sim.called
  /\ error = "none"
  /\ Finished
  /\ Len(stepLog) = 3
  /\ \E i \in 1..Len(navCalls) : navCalls[i] = PopToScreen("Welcome")
\* The calls of every step taken so far, in order.
RECURSIVE AllCalls(_)
AllCalls(log) ==
  IF log = << >> THEN << >> ELSE Head(log).calls \o AllCalls(Tail(log))

IsDispatch(c) == c.fn = "dispatch"
IsFinish(c) == c.fn = "finishOnboarding"
IsLastScreenUpdate(c) == c.action = "updateLastOnboardingScreen"
IsCompleted(c) == c.action = "onboardingCompleted"

\* The persisted last onboarding screen: the latest one recorded.
LastOnboardingScreen ==
  LET ups == SelectSeq(dispatched, IsLastScreenUpdate)
  IN  IF ups = << >> THEN "none" ELSE Last(ups).screen

\* C6: finishing dispatches exactly onboardingCompleted,
\* updateLastOnboardingScreen(final), updateStatsigAndNavigate(final), in that
\* order; routing is never dispatched before the completion flag is set.
C6_FinishOrder ==
  /\ \A i \in 1..Len(dispatched) :
       IsRouting(dispatched[i]) =>
         /\ i >= 3
         /\ dispatched[i - 2] = Dispatch("onboardingCompleted", "none")
         /\ dispatched[i - 1] = updateLastOnboardingScreen(dispatched[i].screen)
         /\ \E j \in 1..(i - 1) : IsCompleted(dispatched[j])
  /\ \A i \in 1..Len(dispatched) :
       IsCompleted(dispatched[i]) =>
         /\ i + 2 <= Len(dispatched)
         /\ IsLastScreenUpdate(dispatched[i + 1])
         /\ IsRouting(dispatched[i + 2])
  /\ Len(dispatched) =
       Len(SelectSeq(AllCalls(stepLog), IsDispatch))
         + 3 * Len(SelectSeq(AllCalls(stepLog), IsFinish))
  /\ Finished =>
       /\ Len(SelectSeq(dispatched, IsCompleted)) = 1
       /\ Len(SelectSeq(dispatched, IsRouting)) = 1
       /\ Last(dispatched) = Dispatch("updateStatsigAndNavigate", currentStep)

C6_Witness ==
  /\ Finished
  /\ Len(dispatched) = 4
  /\ dispatched[1] = initializeAccount
  /\ IsCompleted(dispatched[2])

\* C7: every navigation of a step is followed at once by the dispatch of
\* updateLastOnboardingScreen for the same destination, so after each
\* completed goToNextOnboardingScreen call the persisted last onboarding
\* screen is the screen the user is now on.
C7_LastScreenRecorded ==
  /\ \A k \in 1..Len(stepLog) :
       \A i \in 1..Len(stepLog[k].calls) :
         IsNavigation(stepLog[k].calls[i]) =>
           /\ i < Len(stepLog[k].calls)
           /\ stepLog[k].calls[i + 1] =
                updateLastOnboardingScreen(stepLog[k].calls[i].screen)
  /\ Len(stepLog) > 0 => LastOnboardingScreen = currentStep
  /\ Len(SelectSeq(dispatched, IsLastScreenUpdate)) = Len(DriverScreens) - 1

C7_Witness ==
  /\ Len(stepLog) = 2
  /\ currentStep = "LinkPhoneNumber"
  /\ LastOnboardingScreen = "LinkPhoneNumber"
  /\ \E i \in 1..Len(navCalls) : navCalls[i] = PopToScreen("Welcome")

\* C8: a getOnboardingStepValues call makes no call on NavigationService and
\* dispatches nothing: the two global logs, the user's screen and the
\* driver's history are as they were.
C8_SimulationHasNoEffects ==
  [][ sim' # sim =>
        UNCHANGED << navCalls, dispatched, currentStep, stepLog, flags, props >>
    ]_vars

C8_Witness ==
  /\ sim.called
  /\ sim.iters = 4
  /\ Len(navCalls) = 3
  /\ Len(dispatched) = 4
  /\ \E i \in 1..Len(FlowFrom(FirstScreen, props, MaxIter)) :
       FlowFrom(FirstScreen, props, MaxIter)[i] = "SignInWithEmail"

\* C9: a screen without a case raises "No step info found", and the call
\* that raises makes no navigation call and no dispatch; no step is ever
\* carried out for such a screen.
C9_UnhandledScreenRaises ==
  [][ /\ \A k \in 1..Len(stepLog') : stepLog'[k].from \in HandledScreens
      /\ (error = "none" /\ error' # "none") =>
           /\ error' \in Screens \ HandledScreens
           /\ UNCHANGED << navCalls, dispatched, currentStep, stepLog >>
      /\ \A s \in Screens \ HandledScreens :
           goToNextOnboardingScreen(s) => error' = s
    ]_vars

C9_Witness ==
  /\ error = "Welcome"
  /\ Len(stepLog) = 2
  /\ Len(dispatched) = 2
  /\ currentStep \notin END_OF_ONBOARDING_SCREENS

\* The snapshot is one onboardingPropsSelector yields under the flags.
Derived ==
  \E state \in SelectorInputs : props = onboardingPropsSelector(state, flags)

ExpectedFirstScreen ==
  IF ~props.recoveringFromStoreWipe THEN "PincodeSet"
  ELSE IF flags["CloudBackup"] THEN "ImportSelect"
  ELSE "ImportWallet"

\* C10: the first screen is PincodeSet unless recovering from a store wipe,
\* then ImportSelect with cloud backup enabled and ImportWallet without; for
\* a snapshot derived from the same flags it is the screen the restore
\* branch of the table navigates to.
C10_FirstScreen ==
  /\ Len(stepLog) = 0 => currentStep = ExpectedFirstScreen
  /\ sim.called => sim.trace[1].currentScreen = ExpectedFirstScreen
  /\ DriverScreens[1] = ExpectedFirstScreen
  /\ Derived =>
       /\ ScreensOf(SelectSeq(navigateImportOrImportSelect(props), IsNavigation))
            = << firstOnboardingScreen(TRUE, flags) >>
       /\ \A k \in 1..Len(stepLog) :
            \A i \in 1..Len(stepLog[k].calls) :
              (/\ IsNavigation(stepLog[k].calls[i])
               /\ stepLog[k].calls[i].screen \in { "ImportSelect", "ImportWallet" })
                => stepLog[k].calls[i].screen = firstOnboardingScreen(TRUE, flags)

C10_Witness ==
  /\ sim.called
  /\ Derived
  /\ props.recoveringFromStoreWipe
  /\ flags["CloudBackup"]
  /\ sim.trace[1].currentScreen = "ImportSelect"
  /\ Len(stepLog) = 1
  /\ stepLog[1].from = "ImportSelect"
\* ------------------------------------------------------------------------
\* Steps of the decision table as the driver carried them out
\* ------------------------------------------------------------------------
StepsFrom(S) == { k \in 1..Len(stepLog) : stepLog[k].from \in S }

NavigationsOf(calls) == ScreensOf(SelectSeq(calls, IsNavigation))
FinishesOf(calls) == ScreensOf(SelectSeq(calls, IsFinish))

IsPop(c) == c.fn = "popToScreen"
IsNotPop(c) == c.fn # "popToScreen"
IsInitializeAccount(c) == c.action = "initializeAccount"

BiometryNone(p) == [ p EXCEPT !.supportedBiometryType = "null" ]

\* C11: a snapshot onboardingPropsSelector produces, under any setting of
\* the five flags and any selector input, never has
\* showCloudAccountBackupSetup without showCloudAccountBackupRestore.
C11_SetupImpliesRestore ==
  /\ \A state \in SelectorInputs :
       onboardingPropsSelector(state, flags).showCloudAccountBackupSetup
         => onboardingPropsSelector(state, flags).showCloudAccountBackupRestore
  /\ flags \notin BaseConfigs =>
       /\ Derived
       /\ props.showCloudAccountBackupSetup => props.showCloudAccountBackupRestore

C11_Witness ==
  /\ flags \notin BaseConfigs
  /\ Derived
  /\ flags["CloudBackupSetupInOnboarding"]
  /\ ~flags["CloudBackup"]
  /\ ~props.showCloudAccountBackupSetup
  /\ Len(stepLog) = 1

\* C12: a step from EnableBiometry makes exactly the calls (pop, advance,
\* finish, dispatches) a step from PincodeSet makes under the same snapshot
\* with no biometry.
C12_SameAsPincodeSet ==
  \A k \in StepsFrom({ "EnableBiometry" }) :
    stepLog[k].calls = PincodeSetNext(BiometryNone(props))

\* What the two cases do share: leaving the pop to Welcome aside, a step
\* from EnableBiometry makes the calls of a step from PincodeSet with no
\* biometry, and without a restore choice the two sequences are identical.
EnableBiometrySameButPop ==
  \A k \in StepsFrom({ "EnableBiometry" }) :
    /\ stepLog[k].calls =
         SelectSeq(PincodeSetNext(BiometryNone(props)), IsNotPop)
    /\ SelectSeq(stepLog[k].calls, IsPop) = << >>
    /\ ~Truthy(props.choseToRestoreAccount) =>
         stepLog[k].calls = PincodeSetNext(BiometryNone(props))

\* C13: from PincodeSet the first matching rule wins: biometry, then the
\* restore choice (pop to Welcome, then ImportSelect or ImportWallet), then
\* cloud backup setup (SignInWithEmail), then ProtectWallet or the finish;
\* one advance or one finish per step, never both.
C13_PincodeSetOrder ==
  \A k \in StepsFrom({ "PincodeSet" }) :
    LET calls == stepLog[k].calls
    IN  /\ Len(NavigationsOf(calls)) + Len(FinishesOf(calls)) = 1
        /\ IF props.supportedBiometryType # "null"
             THEN calls = << Navigate("EnableBiometry"),
                             updateLastOnboardingScreen("EnableBiometry") >>
           ELSE IF Truthy(props.choseToRestoreAccount)
             THEN /\ calls[1] = PopToScreen("Welcome")
                  /\ calls[2] =
                       Navigate(IF props.showCloudAccountBackupRestore
                                  THEN "ImportSelect" ELSE "ImportWallet")
                  /\ FinishesOf(calls) = << >>
           ELSE IF props.showCloudAccountBackupSetup
             THEN /\ NavigationsOf(calls) = << "SignInWithEmail" >>
                  /\ SelectSeq(calls, IsPop) = << >>
           ELSE IF props.skipProtectWallet
             THEN /\ FinishesOf(calls) = << "ChooseYourAdventure" >>
                  /\ SelectSeq(calls, IsPop) = << >>
           ELSE /\ NavigationsOf(calls) = << "ProtectWallet" >>
                /\ SelectSeq(calls, IsPop) = << >>

C13_Witness ==
  /\ StepsFrom({ "PincodeSet" }) # { }
  /\ props.supportedBiometryType # "null"
  /\ Truthy(props.choseToRestoreAccount)
  /\ props.showCloudAccountBackupSetup
  /\ currentStep = "EnableBiometry"

VerifyDestination(from) ==
  IF from = "ImportSelect" THEN "LinkPhoneNumber" ELSE "VerificationStartScreen"

\* C14: from ImportSelect, SignInWithEmail and ImportWallet the step is the
\* finish at ChooseYourAdventure exactly when skipVerification or
\* numberAlreadyVerifiedCentrally holds; otherwise ImportSelect advances to
\* LinkPhoneNumber and the other two to VerificationStartScreen. Nothing
\* else is called, so no other field matters and initializeAccount is not
\* dispatched.
C14_RestoreScreens ==
  \A k \in StepsFrom({ "ImportSelect", "SignInWithEmail", "ImportWallet" }) :
    stepLog[k].calls =
      IF props.skipVerification \/ props.numberAlreadyVerifiedCentrally
        THEN << FinishOnboarding("ChooseYourAdventure") >>
        ELSE << Navigate(VerifyDestination(stepLog[k].from)),
                updateLastOnboardingScreen(VerifyDestination(stepLog[k].from)) >>

C14_Witness ==
  /\ \E k \in StepsFrom({ "ImportWallet" }) :
       stepLog[k].calls = << FinishOnboarding("ChooseYourAdventure") >>
  /\ props.numberAlreadyVerifiedCentrally
  /\ ~props.skipVerification
  /\ Finished

\* C15: no step ever uses navigateClearingStack, for any screen and
\* snapshot; ImportSelect reaches LinkPhoneNumber by a plain navigate.
C15_StackNeverCleared ==
  /\ \A s \in HandledScreens :
       \A i \in 1..Len(_getStepInfo(s, props).next) :
         _getStepInfo(s, props).next[i].fn # "navigateClearingStack"
  /\ \A i \in 1..Len(navCalls) : navCalls[i].fn # "navigateClearingStack"
  /\ \A k \in StepsFrom({ "ImportSelect" }) :
       NavigationsOf(stepLog[k].calls) # << >> =>
         stepLog[k].calls[1] = Navigate("LinkPhoneNumber")

C15_Witness ==
  /\ \E k \in StepsFrom({ "ImportSelect" }) :
       stepLog[k].calls[1] = Navigate("LinkPhoneNumber")
  /\ currentStep = "LinkPhoneNumber"
  /\ Last(navCalls) = Navigate("LinkPhoneNumber")
\* C16: from LinkPhoneNumber and VerificationStartScreen the step is the
\* finish at ChooseYourAdventure and nothing else: no advance, no pop, no
\* initializeAccount, whatever the snapshot.
C16_VerificationFinishes ==
  /\ \A k \in StepsFrom({ "LinkPhoneNumber", "VerificationStartScreen" }) :
       stepLog[k].calls = << FinishOnboarding("ChooseYourAdventure") >>
  /\ \A s \in { "LinkPhoneNumber", "VerificationStartScreen" } :
       _getStepInfo(s, props).next = << FinishOnboarding("ChooseYourAdventure") >>
  /\ (Len(stepLog) > 0
      /\ Last(stepLog).from \in { "LinkPhoneNumber", "VerificationStartScreen" }) =>
       /\ Finished
       /\ Len(dispatched) >= 3
       /\ SubSeq(dispatched, Len(dispatched) - 2, Len(dispatched)) =
            RealFinishOnboarding("ChooseYourAdventure")

C16_Witness ==
  /\ Len(stepLog) = 4
  /\ Last(stepLog).from = "LinkPhoneNumber"
  /\ Finished
  /\ SelectSeq(dispatched, IsInitializeAccount) = << >>

\* C17: from ProtectWallet the step is the finish at ChooseYourAdventure
\* when skipVerification holds and the advance to VerificationStartScreen
\* otherwise, numberAlreadyVerifiedCentrally notwithstanding.
C17_ProtectWallet ==
  \A k \in StepsFrom({ "ProtectWallet" }) :
    stepLog[k].calls =
      IF props.skipVerification
        THEN << FinishOnboarding("ChooseYourAdventure") >>
        ELSE << Navigate("VerificationStartScreen"),
                updateLastOnboardingScreen("VerificationStartScreen") >>

C17_Witness ==
  /\ StepsFrom({ "ProtectWallet" }) # { }
  /\ props.numberAlreadyVerifiedCentrally
  /\ ~props.skipVerification
  /\ currentStep = "VerificationStartScreen"

\* The step k is one of the create-account branches.
CreatesAccount(k) ==
  /\ stepLog[k].from \in { "PincodeSet", "EnableBiometry" }
  /\ ~Truthy(props.choseToRestoreAccount)
  /\ stepLog[k].from = "PincodeSet" => props.supportedBiometryType = "null"

\* C18: in the create-account branches of PincodeSet and EnableBiometry
\* initializeAccount is dispatched first, before the advance or the finish
\* of that step.
C18_InitializeAccountFirst ==
  \A k \in 1..Len(stepLog) :
    CreatesAccount(k) =>
      /\ stepLog[k].calls[1] = initializeAccount
      /\ Len(SelectSeq(stepLog[k].calls, IsInitializeAccount)) = 1
      /\ \A i \in 1..Len(stepLog[k].calls) :
           (IsNavigation(stepLog[k].calls[i]) \/ IsFinish(stepLog[k].calls[i]))
             => i > 1
      /\ dispatched[1] = initializeAccount
           \/ (dispatched[1] = updateLastOnboardingScreen("EnableBiometry")
               /\ dispatched[2] = initializeAccount)

C18_Witness ==
  /\ \E k \in 1..Len(stepLog) :
       /\ CreatesAccount(k)
       /\ stepLog[k].from = "EnableBiometry"
       /\ NavigationsOf(stepLog[k].calls) = << "SignInWithEmail" >>
  /\ currentStep = "SignInWithEmail"

\* C19: for any target, on the flow or not, getOnboardingStepValues ends
\* without an error; for a target that is not on the flow it returns
\* step = totalSteps.
C19_AnyTarget ==
  sim.called =>
    /\ ~sim.threw
    /\ ~sim.diverged
    /\ ~OnFlow(sim.target) => sim.step = sim.totalSteps

C19_Witness ==
  /\ sim.called
  /\ sim.target = "Welcome"
  /\ ~OnFlow(sim.target)
  /\ sim.totalSteps = 4
  /\ sim.step = 4

InitializeAccountCount == Len(SelectSeq(dispatched, IsInitializeAccount))

\* C20: a complete run of the driver dispatches initializeAccount once when
\* the user is neither recovering from a store wipe nor restoring, and not
\* at all otherwise; never twice, and never after onboardingCompleted.
C20_InitializeAccountOnce ==
  /\ InitializeAccountCount <= 1
  /\ Finished =>
       InitializeAccountCount =
         (IF ~props.recoveringFromStoreWipe /\ ~Truthy(props.choseToRestoreAccount)
            THEN 1 ELSE 0)
  /\ \A i, j \in 1..Len(dispatched) :
       (IsCompleted(dispatched[i]) /\ IsInitializeAccount(dispatched[j])) => j < i

C20_Witness ==
  /\ Finished
  /\ Len(stepLog) = 4
  /\ InitializeAccountCount = 1
  /\ props.choseToRestoreAccount = "false"
\* C21: a complete run dispatches onboardingCompleted once, in its last
\* step, with no navigation and no updateLastOnboardingScreen of a
\* non-terminal screen after it; every goToNextOnboardingScreen call makes
\* one advance or one finish, never both and never neither.
C21_OneAdvanceOrFinish ==
  /\ \A k \in 1..Len(stepLog) :
       /\ Len(NavigationsOf(stepLog[k].calls)) + Len(FinishesOf(stepLog[k].calls)) = 1
       /\ FinishesOf(stepLog[k].calls) # << >> => k = Len(stepLog)
  /\ Len(SelectSeq(navCalls, IsNavigation))
       = Len(SelectSeq(AllCalls(stepLog), IsNavigation))
  /\ Len(SelectSeq(dispatched, IsCompleted)) <= 1
  /\ Finished <=> Len(SelectSeq(dispatched, IsCompleted)) = 1
  /\ Finished =>
       /\ FinishesOf(Last(stepLog).calls) # << >>
       /\ NavigationsOf(Last(stepLog).calls) = << >>
  /\ \A i, j \in 1..Len(dispatched) :
       (IsCompleted(dispatched[i]) /\ i < j /\ IsLastScreenUpdate(dispatched[j]))
         => dispatched[j].screen \in END_OF_ONBOARDING_SCREENS

C21_Witness ==
  /\ Finished
  /\ Len(stepLog) = 4
  /\ Len(SelectSeq(dispatched, IsCompleted)) = 1
  /\ Len(SelectSeq(navCalls, IsNavigation)) = 3
  /\ stepLog[3].from = "SignInWithEmail"

\* C23: every finish the table makes is at ChooseYourAdventure; TabHome is
\* never the screen of a finish or of an advance, and no advance goes to a
\* terminal screen.
C23_FinishAtChooseYourAdventure ==
  /\ \A s \in HandledScreens :
       \A i \in 1..Len(_getStepInfo(s, props).next) :
         LET c == _getStepInfo(s, props).next[i]
         IN  /\ IsFinish(c) => c.screen = "ChooseYourAdventure"
             /\ IsNavigation(c) => c.screen \notin END_OF_ONBOARDING_SCREENS
             /\ c.screen # "TabHome"
  /\ \A i \in 1..Len(navCalls) : navCalls[i].screen \notin END_OF_ONBOARDING_SCREENS
  /\ \A i \in 1..Len(dispatched) : dispatched[i].screen # "TabHome"
  /\ Finished => currentStep = "ChooseYourAdventure"
  /\ sim.called => Last(sim.trace).currentScreen = "ChooseYourAdventure"

C23_Witness ==
  /\ Finished
  /\ currentStep = "ChooseYourAdventure"
  /\ Last(stepLog).from = "VerificationStartScreen"
  /\ sim.called
  /\ Last(sim.trace).currentScreen = "ChooseYourAdventure"
\* The flow as the screens drive it: each screen reads the snapshot from the
\* store again (onboardingPropsSelector) right before it calls
\* goToNextOnboardingScreen, so the snapshot of one step need not be the
\* snapshot of the step before.
InitFresh ==
  /\ flags \in BaseConfigs
  /\ props \in OnboardingProps
  /\ currentStep = firstOnboardingScreen(props.recoveringFromStoreWipe, flags)
  /\ navCalls = << >>
  /\ dispatched = << >>
  /\ stepLog = << >>
  /\ error = "none"
  /\ sim = NoSim

FreshStep ==
  \E onboardingProps \in OnboardingProps :
    LET stepInfo == _getStepInfo(currentStep, onboardingProps)
        w == ExecReal(stepInfo.next, [ navCalls |-> navCalls, dispatched |-> dispatched ])
    IN  /\ currentStep \notin END_OF_ONBOARDING_SCREENS
        /\ error = "none"
        /\ Len(stepLog) < MaxCalls
        /\ props' = onboardingProps
        /\ IF stepInfo.found
             THEN /\ navCalls' = w.navCalls
                  /\ dispatched' = w.dispatched
                  /\ currentStep' = ScreenAfter(stepInfo.next, currentStep)
                  /\ stepLog' = Append(stepLog, [ from |-> currentStep, calls |-> stepInfo.next ])
                  /\ error' = error
             ELSE /\ error' = currentStep
                  /\ UNCHANGED << navCalls, dispatched, currentStep, stepLog >>
        /\ UNCHANGED << flags, sim >>

NextFresh == FreshStep

SpecFresh == InitFresh /\ [][NextFresh]_vars

\* The screens of a run, read from the step log alone.
VisitedScreens ==
  [ k \in 1..Len(stepLog) |-> stepLog[k].from ] \o << currentStep >>

\* C22: with any snapshot chosen anew at every goToNextOnboardingScreen call,
\* from any first screen, no screen is visited twice and the flow has
\* finished after at most 4 calls.
C22_FreshSnapshotTerminates ==
  /\ error = "none"
  /\ NoRepeat(VisitedScreens)
  /\ Len(stepLog) <= 4
  /\ Len(stepLog) = 4 => Finished

C22_Witness ==
  /\ Finished
  /\ Len(stepLog) = 4
  /\ stepLog[1].from = "PincodeSet"
  /\ stepLog[3].from = "ProtectWallet"
  /\ stepLog[4].from = "VerificationStartScreen"
  /\ props.supportedBiometryType = "null"
  /\ props.skipProtectWallet
  /\ props.skipVerification
====
